---- MODULE Spec2Model ----
(***************************************************************************)
(* Model of distributed/node.py: the Node / ServerNode lifecycle           *)
(* (__await__, start, __aenter__, __aexit__), the service registry         *)
(* (start_services, stop_services, service_ports), the dashboard           *)
(* (start_http_server) and the log buffer (get_logs).                      *)
(*                                                                         *)
(* The event loop is single-threaded and cooperative: one action is the    *)
(* code that runs between two suspension points of one coroutine.          *)
(* Collaborators that live outside node.py (ConnectionPool.start, the      *)
(* service classes, Server.close) are modelled as nondeterministic         *)
(* outcomes at the point the code calls them.                              *)
(***************************************************************************)
EXTENDS Integers, Sequences, FiniteSets, TLC

(***************************************************************************)
(* Bounds                                                                  *)
(***************************************************************************)
MaxTimeout == 1        \* death_timeout ranges over 0..MaxTimeout
MaxStarts == 3         \* rpc.start() invocations explored
MaxServices == 2       \* entries of service_specs
MaxStrLen == 3         \* characters of a port-spec string
MaxTupleLen == 2       \* elements of a port-spec tuple
MaxPort == 1           \* integer port-specs range over 0..MaxPort
MaxLogLength == 3      \* capacity of the log buffer ("log-length")
MaxEmits == 4          \* log records emitted by the node

Tasks == {"t1", "t2"}  \* coroutines using the node concurrently

(***************************************************************************)
(* Python values that occur in service keys and port-specs                 *)
(***************************************************************************)
IntV(n) == [t |-> "int", n |-> n]
StrV(s) == [t |-> "str", s |-> s]          \* s: sequence of characters
TupV(e) == [t |-> "tuple", e |-> e]        \* e: sequence of values
ListV(e) == [t |-> "list", e |-> e]
NoneV == [t |-> "none"]

DigitChars == <<"0", "1", "2", "3", "4", "5", "6", "7", "8", "9">>

IsDigit(c) == \E i \in 1..Len(DigitChars) : DigitChars[i] = c

DigitVal(c) == (CHOOSE i \in 1..Len(DigitChars) : DigitChars[i] = c) - 1

\* str.split(":"): the pieces between the separators, always at least one.
RECURSIVE SplitFrom(_, _, _)
SplitFrom(s, i, cur) ==
    IF i > Len(s) THEN <<StrV(cur)>>
    ELSE IF s[i] = ":" THEN <<StrV(cur)>> \o SplitFrom(s, i + 1, <<>>)
    ELSE SplitFrom(s, i + 1, Append(cur, s[i]))

Split(s) == ListV(SplitFrom(s, 1, <<>>))

RECURSIVE DigitsToInt(_, _, _)
DigitsToInt(s, i, acc) ==
    IF i > Len(s) THEN acc
    ELSE DigitsToInt(s, i + 1, 10 * acc + DigitVal(s[i]))

\* int(x): an int is returned as is, a string of decimal digits is parsed,
\* any other string raises ValueError, any other type raises TypeError.
ToInt(x) ==
    IF x.t = "int" THEN [ok |-> TRUE, n |-> x.n, err |-> "none"]
    ELSE IF x.t = "str"
        THEN IF Len(x.s) > 0 /\ \A i \in 1..Len(x.s) : IsDigit(x.s[i])
             THEN [ok |-> TRUE, n |-> DigitsToInt(x.s, 1, 0), err |-> "none"]
             ELSE [ok |-> FALSE, n |-> 0, err |-> "ValueError"]
        ELSE [ok |-> FALSE, n |-> 0, err |-> "TypeError"]

(***************************************************************************)
(* start_services, lines 100-116: the port-spec of one service key.        *)
(* Result: ok = FALSE when the code raises before its try block;           *)
(* otherwise listen_ip (NoneV when the spec names no host) and port.       *)
(***************************************************************************)
\* lines 102-105
KeyName(key) == IF key.t = "tuple" THEN key.e[1] ELSE key

KeyPort(key) == IF key.t = "tuple" THEN key.e[2] ELSE IntV(0)

SplitPort(port) == IF port.t = "str" THEN Split(port.s) ELSE port

ResolvePort(key) ==
    LET port == SplitPort(KeyPort(key)) IN
    IF port.t \in {"tuple", "list"}
    THEN IF Len(port.e) = 2
         THEN LET p == ToInt(port.e[2]) IN
              IF p.ok
              THEN [ok |-> TRUE, listen_ip |-> port.e[1], port |-> IntV(p.n),
                    err |-> "none"]
              ELSE [ok |-> FALSE, listen_ip |-> NoneV, port |-> port,
                    err |-> p.err]
         ELSE IF Len(port.e) = 1
         THEN [ok |-> TRUE, listen_ip |-> port.e[1], port |-> IntV(0),
               err |-> "none"]
         ELSE [ok |-> FALSE, listen_ip |-> NoneV, port |-> port,
               err |-> "ValueError"]
    ELSE [ok |-> TRUE, listen_ip |-> NoneV, port |-> port, err |-> "none"]

\* "0.0.0.0" as a sequence of characters
AnyAddr == <<"0", ".", "0", ".", "0", ".", "0">>

\* DefaultListenIp without the rewriting of "0.0.0.0"
DefaultListenIpAsGiven(default_listen_ip) == default_listen_ip

\* lines 97-98
DefaultListenIp(default_listen_ip) ==
    IF default_listen_ip = AnyAddr THEN <<>> ELSE default_listen_ip

\* ListenHost written `listen_ip or default_listen_ip`: an empty host of
\* the port-spec gives way to the default
ListenHostOrDefault(listen_ip, default_ip) ==
    IF listen_ip # NoneV /\ listen_ip # StrV(<<>>) /\ listen_ip # IntV(0)
    THEN listen_ip ELSE StrV(default_ip)

\* line 126: the host handed to service.listen
ListenHost(listen_ip, default_ip) ==
    IF listen_ip # NoneV THEN listen_ip ELSE StrV(default_ip)

\* lines 118-121: the keyword configuration of a descriptor
DescriptorKwargs(v) == IF v.tuple THEN v.kwargs ELSE "empty"

\* self.services[k] = service on an insertion-ordered dict: a key already
\* present keeps its position and gets the new value.
Put(reg, k, id) ==
    IF \E j \in 1..Len(reg) : reg[j].k = k
    THEN [j \in 1..Len(reg) |->
             IF reg[j].k = k THEN [k |-> k, id |-> id] ELSE reg[j]]
    ELSE Append(reg, [k |-> k, id |-> id])

(***************************************************************************)
(* start_services, lines 96-135.  st carries the registry (services), the  *)
(* instances that are listening, the warnings issued, the exception that   *)
(* left the function (raised, "none" when it returned), and one record per *)
(* entry whose try block was entered (run): what the collaborators did     *)
(* (o), the address of the listen, and the id of the instance stored, 0    *)
(* when none was.                                                          *)
(***************************************************************************)
\* TryLaunch with service.listen outside the try block: its exception
\* leaves start_services
TryLaunchListenUnguarded(st, i, k, v, host, port, o) ==
    LET id == Len(st.instances) + 1
        inst == [k |-> k, entry |-> i, host |-> host, port |-> port,
                 kwargs |-> DescriptorKwargs(v), stopped |-> FALSE]
        rec == [entry |-> i, k |-> k, host |-> host, port |-> port, o |-> o,
                listenCalled |-> FALSE, id |-> 0]
    IN
    IF o = "ctor"
    THEN [st EXCEPT !.warnings = Append(@, [k |-> k, port |-> port]),
                    !.run = Append(@, rec)]
    ELSE IF o = "listen"
    THEN [st EXCEPT !.raised = "Exception", !.raisedAt = i,
                    !.run = Append(@, [rec EXCEPT !.listenCalled = TRUE])]
    ELSE [st EXCEPT !.instances = Append(@, inst),
                    !.services = Put(@, k, id),
                    !.run = Append(@, [rec EXCEPT !.listenCalled = TRUE,
                                                  !.id = id])]

\* lines 123-135: the try block of one entry.  o is what the collaborators
\* do: "ok", "ctor" (the constructor raises), "listen" (listen raises).
TryLaunch(st, i, k, v, host, port, o) ==
    LET id == Len(st.instances) + 1
        inst == [k |-> k, entry |-> i, host |-> host, port |-> port,
                 kwargs |-> DescriptorKwargs(v), stopped |-> FALSE]
        rec == [entry |-> i, k |-> k, host |-> host, port |-> port, o |-> o,
                listenCalled |-> FALSE, id |-> 0]
        warning == [k |-> k, port |-> port]
    IN
    IF o = "ctor"
    THEN [st EXCEPT !.warnings = Append(@, warning),
                    !.run = Append(@, rec)]
    ELSE IF o = "listen"
    THEN [st EXCEPT !.warnings = Append(@, warning),
                    !.run = Append(@, [rec EXCEPT !.listenCalled = TRUE])]
    ELSE [st EXCEPT !.instances = Append(@, inst),
                    !.services = Put(@, k, id),
                    !.run = Append(@, [rec EXCEPT !.listenCalled = TRUE,
                                                  !.id = id])]

\* lines 101-135: one iteration of the loop
ServiceStep(st, i, entry, o, dip) ==
    LET r == ResolvePort(entry.key) IN
    IF ~r.ok
    THEN [st EXCEPT !.raised = r.err, !.raisedAt = i]
    ELSE TryLaunch(st, i, KeyName(entry.key), entry.v,
                   ListenHost(r.listen_ip, dip), r.port, o)

\* lines 100-135: the loop; an exception that leaves an iteration ends it
RECURSIVE RunServices(_, _, _, _, _)
RunServices(specs, i, oc, dip, st) ==
    IF i > Len(specs) \/ st.raised # "none" THEN st
    ELSE RunServices(specs, i + 1, oc, dip,
                     ServiceStep(st, i, specs[i], oc[i], dip))

(***************************************************************************)
(* stop_services, lines 137-139: service.stop() on the values of the       *)
(* registry in iteration order; bad is the set of handles whose stop()     *)
(* raises.  An exception leaves the loop.                                  *)
(***************************************************************************)
RECURSIVE StopFrom(_, _, _, _, _)
StopFrom(reg, i, insts, bad, invoked) ==
    IF i > Len(reg)
    THEN [instances |-> insts, invoked |-> invoked, raised |-> FALSE]
    ELSE
      LET id == reg[i].id
          insts2 == [insts EXCEPT ![id].stopped = TRUE]
      IN
      IF id \in bad
      THEN [instances |-> insts2, invoked |-> invoked \cup {id},
            raised |-> TRUE]
      ELSE StopFrom(reg, i + 1, insts2, bad, invoked \cup {id})

RegisteredIds(reg) == {reg[j].id : j \in 1..Len(reg)}

\* service_ports, lines 141-143
ServicePorts(reg, insts) ==
    [j \in 1..Len(reg) |-> [k |-> reg[j].k, port |-> insts[reg[j].id].port]]

(***************************************************************************)
(* State                                                                   *)
(***************************************************************************)
VARIABLES
    status,          \* self.status
    death_timeout,   \* getattr(self, "death_timeout", 0); 0: unset or zero
    nodeType,        \* type(self).__name__
    rpcStarts,       \* number of invocations of self.rpc.start()
    co,              \* per task: the coroutine it runs on the node
    service_specs,   \* self.service_specs, in iteration order
    services,        \* self.services, in iteration order: <<[k, id], ...>>
    instances,       \* the service instances that listen, by id
    warnings,        \* warnings issued, in order
    lastRun,         \* what the last start_services did
    stopLog,         \* what the last stop_services did
    http,            \* self.http_server and what start_http_server did
    deque,           \* self._deque_handler.deque, oldest record first
    lastGet          \* what the last get_logs returned

vars == <<status, death_timeout, nodeType, rpcStarts, co, service_specs,
          services, instances, warnings, lastRun, stopLog, http, deque,
          lastGet>>

nodeVars == <<death_timeout, nodeType, service_specs, http, deque, lastGet>>

svcVars == <<services, instances, warnings, lastRun, stopLog>>

(***************************************************************************)
(* Inputs                                                                  *)
(***************************************************************************)
NodeTypes == {"ServerNode", "Subclass"}

SvcNames == {StrV(<<"a">>), StrV(<<"b">>)}

\* port-specs of the services of a node: an integer, "h:1", and the
\* malformed () and "h:1:1"
SvcPortSpecs ==
    {IntV(1),
     StrV(<<"h", ":", "1">>),
     TupV(<<>>),
     StrV(<<"h", ":", "1", ":", "1">>)}

SvcKeys == SvcNames \cup {TupV(<<n, p>>) : n \in SvcNames, p \in SvcPortSpecs}

PlainDescriptor == [tuple |-> FALSE, cls |-> "Service", kwargs |-> "empty"]

KwDescriptor == [tuple |-> TRUE, cls |-> "Service", kwargs |-> "kw"]

SvcEntries ==
    [key : SvcKeys, v : {PlainDescriptor}]
        \cup [key : SvcNames, v : {KwDescriptor}]

\* a dict has no two equal keys
DistinctKeys(s) ==
    \A i, j \in 1..Len(s) : i # j => s[i].key # s[j].key

ServiceSpecs ==
    {s \in UNION {[1..m -> SvcEntries] : m \in 0..MaxServices} :
        DistinctKeys(s)}

DefaultIps == {AnyAddr, <<"h">>}

Outcomes == {"ok", "ctor", "listen"}

(***************************************************************************)
(* Coroutines                                                              *)
(***************************************************************************)
NoRes == [type |-> "none"]

Ret(v) == [type |-> "return", val |-> v]

Err(e) == [type |-> "raise", exc |-> e]

\* lines 184-188
TimeoutErr ==
    [name |-> "TimeoutError", node |-> nodeType, timeout |-> death_timeout]

IdleTask ==
    [pc |-> "idle", op |-> "none", guarded |-> FALSE, startEnd |-> "none",
     cancelled |-> FALSE, closes |-> 0, closeArg |-> "none",
     closeFor |-> "none", closeEnd |-> "none", val |-> "none",
     body |-> "none", res |-> NoRes]

NoRun ==
    [ran |-> FALSE, run |-> <<>>, raised |-> "none", raisedAt |-> 0,
     warnFrom |-> 0, default_listen_ip |-> <<>>]

NoStop == [ran |-> FALSE, registered |-> {}, invoked |-> {}, raised |-> FALSE]

\* no start_http_server yet: the node has no http_server attribute
NoHttp ==
    [ran |-> FALSE, http_server |-> "none", ssl_options |-> "none",
     dashboard_address |-> NoneV,
     http_address |-> [address |-> <<>>, port |-> 0],
     listens |-> <<>>, changed_port |-> FALSE, raised |-> "none",
     bound |-> 0, id |-> 0, warnFrom |-> 0]

NoGet == [ran |-> FALSE, n |-> NoneV, result |-> <<>>]

InitNode ==
    /\ status = "created"
    /\ death_timeout \in 0..MaxTimeout
    /\ nodeType \in NodeTypes
    /\ rpcStarts = 0
    /\ co = [t \in Tasks |-> IdleTask]
    /\ services = <<>>
    /\ instances = <<>>
    /\ warnings = <<>>
    /\ lastRun = NoRun
    /\ stopLog = NoStop
    /\ http = NoHttp
    /\ deque = <<>>
    /\ lastGet = NoGet

\* the lifecycle is explored on a node that declares no service
Init == InitNode /\ service_specs = <<>>

(***************************************************************************)
(* close().  Server.close and the overrides of the node classes are not    *)
(* part of node.py; modelled from the specification: a close of a node     *)
(* that is closing or closed is a no-op, otherwise the node becomes        *)
(* closing, stop_services runs, the coroutine suspends to release the      *)
(* connection pool, and the node becomes closed.  A close can raise.       *)
(***************************************************************************)
\* what the caller of close gets once close has ended (lines 183-188 in
\* wait_for, line 169 in __aexit__): an exception of close propagates.
AfterClose(for, b, outcome) ==
    IF outcome = "raised" THEN Err([name |-> "CloseError"])
    ELSE IF for = "wait_for" THEN Err(TimeoutErr)
    ELSE IF for = "aexit" /\ b = "exception" THEN Err([name |-> "BodyError"])
    ELSE IF for = "aexit" /\ b = "cancelled"
    THEN Err([name |-> "CancelledError"])
    ELSE Ret("None")

RunStop(bad) == StopFrom(services, 1, instances, bad, {})

StopLogOf(r) ==
    [ran |-> TRUE, registered |-> RegisteredIds(services),
     invoked |-> r.invoked, raised |-> r.raised]

\* task t, whose record is c, calls self.close(timeout=arg)
InvokeClose(t, c, for, arg, b) ==
    LET c1 == [c EXCEPT !.closes = @ + 1, !.closeArg = arg,
                        !.closeFor = for, !.body = b]
    IN
    IF status \in {"closing", "closed"}
    THEN /\ co' = [co EXCEPT ![t] =
                      [c1 EXCEPT !.pc = "done", !.closeEnd = "noop",
                                 !.res = AfterClose(for, b, "returned")]]
         /\ UNCHANGED <<status, instances, stopLog>>
    ELSE \E bad \in SUBSET RegisteredIds(services) :
           LET r == RunStop(bad) IN
           /\ status' = "closing"
           /\ instances' = r.instances
           /\ stopLog' = StopLogOf(r)
           /\ co' = [co EXCEPT ![t] =
                        IF r.raised
                        THEN [c1 EXCEPT !.pc = "done", !.closeEnd = "raised",
                                        !.res = AfterClose(for, b, "raised")]
                        ELSE [c1 EXCEPT !.pc = "close"]]

closeRest == <<rpcStarts, death_timeout, nodeType, service_specs, services,
               warnings, lastRun, http, deque, lastGet>>

\* the status once a start() has returned: ServerNode.start (lines 193-196)
\* does not assign it; the start of a subclass sets "running" after
\* super().start() (modelled from the specification).
StatusAfterStart == IF nodeType = "Subclass" THEN "running" ELSE status

(***************************************************************************)
(* Lifecycle operations                                                    *)
(***************************************************************************)
\* AwaitNode without the test of line 172: every await starts the node
AwaitNodeAlwaysStarts(t, o) ==
    /\ co[t].pc = "idle"
    /\ rpcStarts < MaxStarts
    /\ rpcStarts' = rpcStarts + 1
    /\ co' = [co EXCEPT ![t] =
                 [IdleTask EXCEPT !.pc = "rpc_start", !.op = o,
                                  !.guarded = (death_timeout # 0)]]
    /\ UNCHANGED <<status, nodeVars, svcVars>>

\* __await__, lines 171-191, up to the first suspension.  o = "await" for
\* `await node`, "with" for `async with node` (__aenter__, line 165).
AwaitNode(t, o) ==
    /\ co[t].pc = "idle"
    /\ IF status = "running"
       THEN /\ co' = [co EXCEPT ![t] =
                         [IdleTask EXCEPT !.pc = "sleep0", !.op = o]]
            /\ UNCHANGED rpcStarts
       ELSE /\ rpcStarts < MaxStarts
            /\ rpcStarts' = rpcStarts + 1
            /\ co' = [co EXCEPT ![t] =
                         [IdleTask EXCEPT !.pc = "rpc_start", !.op = o,
                                          !.guarded = (death_timeout # 0)]]
    /\ UNCHANGED <<status, nodeVars, svcVars>>

Await(t) == AwaitNode(t, "await")

EnterScope(t) == AwaitNode(t, "with")

\* a direct call of start(), lines 193-196 and 46-47
CallStart(t) ==
    /\ co[t].pc = "idle"
    /\ rpcStarts < MaxStarts
    /\ rpcStarts' = rpcStarts + 1
    /\ co' = [co EXCEPT ![t] =
                 [IdleTask EXCEPT !.pc = "rpc_start", !.op = "start"]]
    /\ UNCHANGED <<status, nodeVars, svcVars>>

\* gen.sleep(0) is over (line 173); __aenter__ then returns self (line 166)
SleepReturns(t) ==
    /\ co[t].pc = "sleep0"
    /\ co' = [co EXCEPT ![t] =
                 IF @.op = "with" THEN [@ EXCEPT !.pc = "body", !.val = "self"]
                 ELSE [@ EXCEPT !.pc = "done", !.res = Ret("None")]]
    /\ UNCHANGED <<status, rpcStarts, nodeVars, svcVars>>

\* what `await node` evaluates to when the start has returned: start()
\* returns self (line 196), wait_for returns nothing (lines 179-188)
AwaitValue(c) == IF c.guarded THEN "None" ELSE "self"

\* rpc.start() returns: start() returns self
RpcStartReturns(t) ==
    /\ co[t].pc = "rpc_start"
    /\ status' = StatusAfterStart
    /\ co' = [co EXCEPT ![t] =
                 IF @.op = "with"
                 THEN [@ EXCEPT !.pc = "body", !.startEnd = "returned",
                                !.val = "self"]
                 ELSE [@ EXCEPT !.pc = "done", !.startEnd = "returned",
                                !.res = Ret(AwaitValue(co[t]))]]
    /\ UNCHANGED <<rpcStarts, nodeVars, svcVars>>

\* rpc.start() raises: caught by wait_for (line 182) when there is one
RpcStartRaises(t) ==
    /\ co[t].pc = "rpc_start"
    /\ IF co[t].guarded
       THEN InvokeClose(t, [co[t] EXCEPT !.startEnd = "raised"],
                        "wait_for", "1", "none")
       ELSE /\ co' = [co EXCEPT ![t] =
                         [@ EXCEPT !.pc = "done", !.startEnd = "raised",
                                   !.res = Err([name |-> "PoolError"])]]
            /\ UNCHANGED <<status, instances, stopLog>>
    /\ UNCHANGED closeRest

\* the death_timeout elapses: asyncio.wait_for cancels the start and raises
\* its timeout error, caught at line 182
StartTimesOut(t) ==
    /\ co[t].pc = "rpc_start"
    /\ co[t].guarded
    /\ InvokeClose(t, [co[t] EXCEPT !.startEnd = "timeout",
                                    !.cancelled = TRUE],
                   "wait_for", "1", "none")
    /\ UNCHANGED closeRest

\* BodyEnds with an __aexit__ that is not run when the body is cancelled
BodyEndsNoExitOnCancel(t, b) ==
    /\ co[t].pc = "body"
    /\ IF b = "cancelled"
       THEN /\ co' = [co EXCEPT ![t] =
                         [@ EXCEPT !.pc = "done", !.body = b,
                                   !.res = Err([name |-> "CancelledError"])]]
            /\ UNCHANGED <<status, instances, stopLog>>
       ELSE InvokeClose(t, co[t], "aexit", "None", b)
    /\ UNCHANGED closeRest

\* the body of `async with node` ends in way b; __aexit__ runs (lines
\* 168-169) and awaits close()
BodyEnds(t, b) ==
    /\ co[t].pc = "body"
    /\ InvokeClose(t, co[t], "aexit", "None", b)
    /\ UNCHANGED closeRest

\* a direct call of close()
CallClose(t) ==
    /\ co[t].pc = "idle"
    /\ InvokeClose(t, [IdleTask EXCEPT !.op = "close"], "call", "None",
                   "none")
    /\ UNCHANGED closeRest

\* the suspended close completes
CloseReturns(t) ==
    /\ co[t].pc = "close"
    /\ status' = "closed"
    /\ co' = [co EXCEPT ![t] =
                 [@ EXCEPT !.pc = "done", !.closeEnd = "returned",
                           !.res = AfterClose(co[t].closeFor, co[t].body,
                                              "returned")]]
    /\ UNCHANGED <<rpcStarts, nodeVars, svcVars>>

\* the suspended close raises
CloseRaises(t) ==
    /\ co[t].pc = "close"
    /\ co' = [co EXCEPT ![t] =
                 [@ EXCEPT !.pc = "done", !.closeEnd = "raised",
                           !.res = AfterClose(co[t].closeFor, co[t].body,
                                              "raised")]]
    /\ UNCHANGED <<status, rpcStarts, nodeVars, svcVars>>

\* the task has its result and is free for the next operation
Reset(t) ==
    /\ co[t].pc = "done"
    /\ co' = [co EXCEPT ![t] = IdleTask]
    /\ UNCHANGED <<status, rpcStarts, nodeVars, svcVars>>

(***************************************************************************)
(* Service operations                                                      *)
(***************************************************************************)
\* start_services(default_listen_ip), lines 96-135; called once in the
\* life of a node
StartServices(default_listen_ip, oc) ==
    /\ ~lastRun.ran
    /\ LET st0 == [services |-> services, instances |-> instances,
                   warnings |-> warnings, run |-> <<>>, raised |-> "none",
                   raisedAt |-> 0]
           r == RunServices(service_specs, 1, oc,
                            DefaultListenIp(default_listen_ip), st0)
       IN
       /\ services' = r.services
       /\ instances' = r.instances
       /\ warnings' = r.warnings
       /\ lastRun' = [ran |-> TRUE, run |-> r.run, raised |-> r.raised,
                      raisedAt |-> r.raisedAt, warnFrom |-> Len(warnings),
                      default_listen_ip |-> default_listen_ip]
    /\ UNCHANGED <<status, rpcStarts, co, nodeVars, stopLog>>

\* stop_services(), lines 137-139
StopServices(bad) ==
    /\ Len(services) > 0
    /\ LET r == RunStop(bad) IN
       /\ instances' = r.instances
       /\ stopLog' = StopLogOf(r)
    /\ UNCHANGED <<status, rpcStarts, co, nodeVars, services, warnings,
                   lastRun>>

(***************************************************************************)
(* start_http_server, lines 198-246                                        *)
(***************************************************************************)
DashboardKey == StrV(<<"d", "a", "s", "h", "b", "o", "a", "r", "d">>)

\* the truth value of a Python value (lines 221, 225, 239)
Truthy(v) ==
    /\ v # NoneV
    /\ v # IntV(0)
    /\ v # StrV(<<>>)
    /\ v # TupV(<<>>)
    /\ v # ListV(<<>>)

\* clean_dashboard_address: the port-spec resolution applied to the
\* requested address, with "" for the host when the address names none
CleanDashboardAddress(addr) ==
    LET r == ResolvePort(TupV(<<DashboardKey, addr>>)) IN
    [ok |-> r.ok, err |-> r.err, port |-> r.port,
     address |-> IF r.listen_ip = NoneV THEN StrV(<<>>) ELSE r.listen_ip]

\* get_address_host: the host of a "host:port" address; ValueError for an
\* address it does not understand
GetAddressHost(address) ==
    LET parts == SplitPort(address) IN
    IF parts.t = "list" /\ Len(parts.e) = 2
    THEN [ok |-> TRUE, host |-> parts.e[1]]
    ELSE [ok |-> FALSE, host |-> NoneV]

\* lines 224-226: the node's own listen address, its first element when it
\* is a list or a tuple
FirstAddress(start_address) ==
    IF start_address.t \in {"list", "tuple"} THEN start_address.e[1]
    ELSE start_address

\* lines 223-229: the host is inferred when the requested address names none
InferHost(http_address, start_address) ==
    IF Truthy(http_address.address) THEN http_address
    ELSE LET address == FirstAddress(start_address) IN
         IF Truthy(address) /\ GetAddressHost(address).ok
         THEN [http_address EXCEPT !.address = GetAddressHost(address).host]
         ELSE http_address

\* RetryAddress without the port forced to 0
RetryAddressSamePort(http_address) == http_address

\* line 235: tlz.merge(http_address, {"port": 0})
RetryAddress(http_address) == [http_address EXCEPT !.port = IntV(0)]

\* WarnsPortInUse without `and dashboard_address`
WarnsOnAnyFallback(changed_port, dashboard_address) == changed_port

\* line 239
WarnsPortInUse(changed_port, dashboard_address) ==
    changed_port /\ Truthy(dashboard_address)

\* the port of the socket after a successful listen(address, port): the
\* port asked for, a free one when 0 was asked for
SocketPort(port, free) == IF port = IntV(0) THEN free ELSE port.n

\* start_http_server(routes, dashboard_address, default_port).  tls: whether
\* a certificate is configured ("off", "on") or fails to load ("fail");
\* first, retry: whether the first listen and the listen of line 235
\* succeed; free: the port the system picks when port 0 is asked for.
StartHttpServer(dashboard_address, default_port, start_address, tls, first, retry, free) ==
    /\ ~http.ran
    /\ LET requested == IF Truthy(dashboard_address) THEN dashboard_address
                        ELSE IntV(default_port)
           cleaned == CleanDashboardAddress(requested)
           http_address == InferHost([address |-> cleaned.address,
                                      port |-> cleaned.port], start_address)
           again == RetryAddress(http_address)
           call == [http EXCEPT !.ran = TRUE,
                                !.dashboard_address = dashboard_address,
                                !.warnFrom = Len(warnings)]
           server == [call EXCEPT
                         !.http_server = "unbound",
                         !.ssl_options = IF tls = "on" THEN "CERT_NONE"
                                         ELSE "none"]
           listen1 == [address |-> http_address.address,
                       port |-> http_address.port, ok |-> first]
           listen2 == [address |-> again.address, port |-> again.port,
                       ok |-> retry]
           id == Len(instances) + 1
           bound == IF first THEN SocketPort(http_address.port, free)
                    ELSE SocketPort(again.port, free)
           inst == [k |-> DashboardKey, entry |-> 0,
                    host |-> IF first THEN listen1.address
                             ELSE listen2.address,
                    port |-> IntV(bound), kwargs |-> "empty",
                    stopped |-> FALSE]
       IN
       IF tls = "fail"
       THEN \* lines 206-218: load_cert_chain raises
            /\ http' = [call EXCEPT !.raised = "SSLError"]
            /\ UNCHANGED <<services, instances, warnings>>
       ELSE IF ~cleaned.ok
       THEN \* line 221 raises, self.http_server is assigned (line 220)
            /\ http' = [server EXCEPT !.raised = cleaned.err]
            /\ UNCHANGED <<services, instances, warnings>>
       ELSE IF ~first /\ ~retry
       THEN \* line 235 raises
            /\ http' = [server EXCEPT !.http_address = http_address,
                                      !.listens = <<listen1, listen2>>,
                                      !.changed_port = TRUE,
                                      !.raised = "BindError"]
            /\ UNCHANGED <<services, instances, warnings>>
       ELSE /\ http' = [server EXCEPT
                           !.http_server = "bound",
                           !.http_address = http_address,
                           !.listens = IF first THEN <<listen1>>
                                       ELSE <<listen1, listen2>>,
                           !.changed_port = ~first,
                           !.bound = bound,
                           !.id = id]
            /\ instances' = Append(instances, inst)
            /\ services' = Put(services, DashboardKey, id)
            /\ warnings' =
                 IF WarnsPortInUse(~first, dashboard_address)
                 THEN Append(warnings, [kind |-> "port_in_use",
                                        requested |-> http_address.port,
                                        actual |-> inst.port])
                 ELSE warnings
    /\ UNCHANGED <<status, death_timeout, nodeType, rpcStarts, co,
                   service_specs, lastRun, stopLog, deque, lastGet>>

(***************************************************************************)
(* The log buffer, lines 145-162.  A record is [levelname, no]: no is the  *)
(* serial number of the message.                                           *)
(***************************************************************************)
Levels == {"INFO", "WARNING"}

\* the serial number of the next record
NextNo == IF Len(deque) = 0 THEN 1 ELSE deque[Len(deque)].no + 1

\* DequeHandler.emit on a deque of maxlen n (lines 146-148): the oldest
\* record leaves a full buffer
Emit(levelname) ==
    /\ NextNo <= MaxEmits
    /\ deque' = LET d == Append(deque, [levelname |-> levelname,
                                        no |-> NextNo])
                IN IF Len(d) > MaxLogLength THEN Tail(d) ELSE d
    /\ UNCHANGED <<status, death_timeout, nodeType, rpcStarts, co,
                   service_specs, svcVars, http, lastGet>>

\* self._deque_handler.format(msg): the record under the log-format
\* template "%(name)s - %(levelname)s - %(message)s" (lines 149-150)
Format(msg) == <<"distributed", "-", msg.levelname, "-", msg.no>>

\* L[-i] (line 160): -0 is 0, the first element
NegIndex(L, i) == IF i = 0 THEN L[1] ELSE L[Len(L) - i + 1]

Min(a, b) == IF a < b THEN a ELSE b

\* ListOf with the newest record first
ListOfReversed(d) == [i \in 1..Len(d) |-> d[Len(d) - i + 1]]

\* line 158: list(self._deque_handler.deque)
ListOf(d) == d

\* lines 157-161; range(k) is empty for k <= 0
LogEntries(d, n) ==
    IF n = NoneV THEN ListOf(d)
    ELSE [j \in 1..Min(n.n, Len(d)) |-> NegIndex(d, j - 1)]

\* get_logs(n=n), lines 155-162
GetLogs(n) ==
    /\ lastGet' = [ran |-> TRUE, n |-> n,
                   result |-> LET L == LogEntries(deque, n) IN
                              [j \in 1..Len(L) |->
                                  <<L[j].levelname, Format(L[j])>>]]
    /\ UNCHANGED <<status, death_timeout, nodeType, rpcStarts, co,
                   service_specs, svcVars, http, deque>>

BodyExits == {"normal", "exception", "cancelled"}

Next ==
    \/ \E t \in Tasks : Await(t)
    \/ \E t \in Tasks : EnterScope(t)
    \/ \E t \in Tasks : CallStart(t)
    \/ \E t \in Tasks : SleepReturns(t)
    \/ \E t \in Tasks : RpcStartReturns(t)
    \/ \E t \in Tasks : RpcStartRaises(t)
    \/ \E t \in Tasks : StartTimesOut(t)
    \/ \E t \in Tasks, b \in BodyExits : BodyEnds(t, b)
    \/ \E t \in Tasks : CallClose(t)
    \/ \E t \in Tasks : CloseReturns(t)
    \/ \E t \in Tasks : CloseRaises(t)
    \/ \E t \in Tasks : Reset(t)

Spec == Init /\ [][Next]_vars

(***************************************************************************)
(* The service registry alone, over every declaration of ServiceSpecs      *)
(***************************************************************************)
InitSvc ==
    /\ InitNode
    /\ death_timeout = 0
    /\ nodeType = "ServerNode"
    /\ service_specs \in ServiceSpecs

NextSvc ==
    \/ \E d \in DefaultIps, oc \in [1..Len(service_specs) -> Outcomes] :
          StartServices(d, oc)
    \/ \E bad \in SUBSET RegisteredIds(services) : StopServices(bad)

SpecSvc == InitSvc /\ [][NextSvc]_vars

(***************************************************************************)
(* The resolution of a port-spec: one declared service, over every         *)
(* port-spec of AllPortSpecs                                               *)
(***************************************************************************)
Chars == {"h", ":", "1"}

Strings == UNION {[1..m -> Chars] : m \in 0..MaxStrLen}

\* what a tuple port-spec is made of: an integer, "h", "1", "0.0.0.0"
Elems == {IntV(1), StrV(<<"h">>), StrV(<<"1">>), StrV(AnyAddr)}

Tuples == UNION {[1..m -> Elems] : m \in 0..MaxTupleLen}

AllPortSpecs ==
    {IntV(n) : n \in 0..MaxPort}
        \cup {StrV(x) : x \in Strings}
        \cup {TupV(x) : x \in Tuples}
        \cup {NoneV}

ResolveKeys ==
    {StrV(<<"a">>)} \cup {TupV(<<StrV(<<"a">>), p>>) : p \in AllPortSpecs}

InitResolve ==
    /\ InitNode
    /\ death_timeout = 0
    /\ nodeType = "ServerNode"
    /\ service_specs \in {<<[key |-> k, v |-> PlainDescriptor]>> :
                             k \in ResolveKeys}

SpecResolve == InitResolve /\ [][NextSvc]_vars

(***************************************************************************)
(* The dashboard: start_http_server on a node that may also declare a      *)
(* service under the key "dashboard"                                       *)
(***************************************************************************)
DashboardAddresses ==
    {NoneV, StrV(<<>>), StrV(<<"h", ":", "1">>), StrV(<<":", "1">>),
     StrV(<<"h">>), StrV(<<"h", ":", "1", ":", "1">>)}
        \cup {IntV(n) : n \in 0..MaxPort}

StartAddresses ==
    {NoneV, StrV(<<"g", ":", "1">>), TupV(<<StrV(<<"g", ":", "1">>)>>),
     StrV(<<"g">>)}

\* ports the system may pick for port 0: none of them is asked for
FreePorts == {MaxPort + 1, MaxPort + 2}

TlsConfigs == {"off", "on", "fail"}

InitHttp ==
    /\ InitNode
    /\ death_timeout = 0
    /\ nodeType = "ServerNode"
    /\ service_specs \in {<<>>, <<[key |-> DashboardKey,
                                    v |-> PlainDescriptor]>>}

NextHttp ==
    \/ \E dashboard_address \in DashboardAddresses,
          default_port \in 0..MaxPort,
          start_address \in StartAddresses,
          tls \in TlsConfigs, first \in BOOLEAN, retry \in BOOLEAN,
          free \in FreePorts :
            StartHttpServer(dashboard_address, default_port, start_address,
                            tls, first, retry, free)
    \/ \E d \in DefaultIps :
          \E oc \in [1..Len(service_specs) -> Outcomes] : StartServices(d, oc)
    \/ \E bad \in SUBSET RegisteredIds(services) : StopServices(bad)

SpecHttp == InitHttp /\ [][NextHttp]_vars

(***************************************************************************)
(* The log buffer: records are emitted and get_logs is called              *)
(***************************************************************************)
LogCounts == {NoneV} \cup {IntV(n) : n \in 0..MaxLogLength + 1}

InitLogs ==
    /\ InitNode
    /\ death_timeout = 0
    /\ nodeType = "ServerNode"
    /\ service_specs = <<>>

NextLogs ==
    \/ \E levelname \in Levels : Emit(levelname)
    \/ \E n \in LogCounts : GetLogs(n)

SpecLogs == InitLogs /\ [][NextLogs]_vars

(***************************************************************************)
(* Properties                                                              *)
(***************************************************************************)
\* task t begins a start of the node in this step: start() or `await node`
BeginsStart(t) ==
    /\ co[t].pc = "idle"
    /\ co'[t].pc # "idle"
    /\ co'[t].op \in {"await", "start"}

\* C1: a start (start() or await) of a node whose status is "running" does
\* not invoke the connection pool's start and leaves the service registry
\* unchanged.
C1_StartWhileRunningHasNoEffect ==
    [][\A t \in Tasks :
          (status = "running" /\ BeginsStart(t))
              => (rpcStarts' = rpcStarts /\ services' = services)]_vars

\* C2: a start (start() or await) of a node whose status is "closing" or
\* "closed" fails with InvalidStateError without invoking the connection
\* pool's start.
C2_StartWhileClosingIsRejected ==
    [][\A t \in Tasks :
          (status \in {"closing", "closed"} /\ BeginsStart(t))
              => /\ rpcStarts' = rpcStarts
                 /\ co'[t].pc = "done"
                 /\ co'[t].res = Err([name |-> "InvalidStateError"])]_vars

\* task t's operation ends in this step
Ends(t) == co[t].pc # "done" /\ co'[t].pc = "done"

\* C3: an await whose start ran into the death_timeout ends with the start
\* cancelled, one close(timeout=1) invoked, the timeout error naming the
\* node type and the timeout raised, and the node closed.
C3_TimeoutClosesThenRaises ==
    [][\A t \in Tasks :
          (Ends(t) /\ co'[t].startEnd = "timeout")
              => /\ co'[t].cancelled
                 /\ co'[t].closes = 1
                 /\ co'[t].closeArg = "1"
                 /\ co'[t].res = Err(TimeoutErr)
                 /\ status' = "closed"]_vars

\* C4: when the start timed out and the forced close raised, the caller
\* still receives the timeout error.
C4_CloseFailureIsSuppressed ==
    \A t \in Tasks :
        (co[t].pc = "done" /\ co[t].startEnd = "timeout"
            /\ co[t].closeEnd = "raised")
            => co[t].res = Err(TimeoutErr)

\* C5: an await whose start timed out or whose pool start raised ends with
\* an error raised to the caller after a close of the node was invoked,
\* whatever the death_timeout.
C5_StartupFailureRaisesAfterClose ==
    \A t \in Tasks :
        (co[t].pc = "done" /\ co[t].op \in {"await", "with"}
            /\ co[t].startEnd \in {"timeout", "raised"})
            => (co[t].res.type = "raise" /\ co[t].closes >= 1)

\* C6: a scope is entered only once the await of the node has returned, and
\* is entered with the node itself; no close is invoked by the scope while
\* its body runs; when the scope is over, whichever way the body ended
\* (normally, by an exception, by cancellation), __aexit__ has invoked close
\* exactly once; a scope whose entry failed has no body.
C6_ScopeClosesExactlyOnce ==
    \A t \in Tasks :
        co[t].op = "with" =>
            /\ co[t].pc = "body" =>
                  /\ co[t].val = "self"
                  /\ co[t].closes = 0
                  /\ co[t].startEnd \in {"none", "returned"}
                  /\ co[t].body = "none"
            /\ (co[t].pc = "done" /\ co[t].val = "self") =>
                  /\ co[t].body \in BodyExits
                  /\ co[t].closes = 1
                  /\ co[t].closeFor = "aexit"
            /\ (co[t].pc \in {"close", "done"} /\ co[t].val # "self") =>
                  /\ co[t].body = "none"
                  /\ co[t].startEnd \in {"timeout", "raised"}
                  /\ co[t].closeFor # "aexit"

\* a scope whose body was cancelled is over, after one close by __aexit__
C6_Witness ==
    \E t \in Tasks :
        /\ co[t].op = "with"
        /\ co[t].pc = "done"
        /\ co[t].body = "cancelled"
        /\ co[t].closes = 1
        /\ co[t].closeFor = "aexit"

\* stop_services runs in this step: called directly, or by a close of a
\* node that was neither closing nor closed
StopServicesRuns ==
    \/ \E bad \in SUBSET RegisteredIds(services) : StopServices(bad)
    \/ status \notin {"closing", "closed"} /\ status' = "closing"

\* C7: after stop_services, and so after close, the service registry is
\* empty.
C7_RegistryEmptyAfterStop ==
    [][StopServicesRuns => services' = <<>>]_vars

\* C8: stop_services invokes stop() on every registered handle, also when
\* the stop() of one of them raises.
C8_EveryHandleIsStopped ==
    stopLog.ran => stopLog.invoked = stopLog.registered

(***************************************************************************)
(* C9 and C10 are about the last start_services                            *)
(***************************************************************************)
WellFormedKeys ==
    SvcNames \cup {TupV(<<n, p>>) :
                      n \in SvcNames,
                      p \in {IntV(1), StrV(<<"h", ":", "1">>)}}

Failed(r) == r.o # "ok"

WarningOf(r) == [k |-> r.k, port |-> r.port]

RECURSIVE FailedWarnings(_, _)
FailedWarnings(run, j) ==
    IF j > Len(run) THEN <<>>
    ELSE (IF Failed(run[j]) THEN <<WarningOf(run[j])>> ELSE <<>>)
             \o FailedWarnings(run, j + 1)

RunWarnings == SubSeq(warnings, lastRun.warnFrom + 1, Len(warnings))

\* no later record of the run is of the same service name
LastOfName(run, j) == \A m \in (j + 1)..Len(run) : run[m].k # run[j].k

C10_MalformedPortSpecIsSkipped ==
    lastRun.ran =>
        /\ lastRun.raised = "none"
        /\ \A i \in 1..Len(service_specs) :
              service_specs[i].key \in WellFormedKeys
                  => \E j \in 1..Len(lastRun.run) : lastRun.run[j].entry = i

(***************************************************************************)
(* C11 to C13 are about the address of the listen of a declared service.   *)
(* The resolution rules, written from their statement.                     *)
(***************************************************************************)
HasSpec(key) == key.t = "tuple"

SpecOf(key) == key.e[2]

Colons(x) == {i \in 1..Len(x) : x[i] = ":"}

TheColon(x) == CHOOSE i \in Colons(x) : TRUE

IsDecimal(x) == Len(x) > 0 /\ \A i \in 1..Len(x) : IsDigit(x[i])

RECURSIVE Decimal(_)
Decimal(x) ==
    IF Len(x) = 0 THEN 0
    ELSE 10 * Decimal(SubSeq(x, 1, Len(x) - 1)) + DigitVal(x[Len(x)])

IsPort(v) == v.t = "int" \/ (v.t = "str" /\ IsDecimal(v.s))

PortOf(v) == IF v.t = "int" THEN v.n ELSE Decimal(v.s)

\* absent, an integer, a string "host" or "host:port", a 1-tuple, a 2-tuple
ValidSpec(key) ==
    \/ ~HasSpec(key)
    \/ SpecOf(key).t = "int"
    \/ /\ SpecOf(key).t = "str"
       /\ \/ Colons(SpecOf(key).s) = {}
          \/ /\ Cardinality(Colons(SpecOf(key).s)) = 1
             /\ IsDecimal(SubSeq(SpecOf(key).s, TheColon(SpecOf(key).s) + 1,
                                 Len(SpecOf(key).s)))
    \/ /\ SpecOf(key).t = "tuple"
       /\ \/ Len(SpecOf(key).e) = 1
          \/ Len(SpecOf(key).e) = 2 /\ IsPort(SpecOf(key).e[2])

NamesNoHost(key) == ~HasSpec(key) \/ SpecOf(key).t = "int"

TheDefaultHost(d) == StrV(IF d = AnyAddr THEN <<>> ELSE d)

ExpectedHost(key, d) ==
    IF NamesNoHost(key) THEN TheDefaultHost(d)
    ELSE IF SpecOf(key).t = "tuple" THEN SpecOf(key).e[1]
    ELSE IF Colons(SpecOf(key).s) = {} THEN SpecOf(key)
    ELSE StrV(SubSeq(SpecOf(key).s, 1, TheColon(SpecOf(key).s) - 1))

ExpectedPort(key) ==
    IF ~HasSpec(key) THEN 0
    ELSE IF SpecOf(key).t = "int" THEN SpecOf(key).n
    ELSE IF SpecOf(key).t = "tuple"
    THEN (IF Len(SpecOf(key).e) = 1 THEN 0 ELSE PortOf(SpecOf(key).e[2]))
    ELSE IF Colons(SpecOf(key).s) = {} THEN 0
    ELSE Decimal(SubSeq(SpecOf(key).s, TheColon(SpecOf(key).s) + 1,
                        Len(SpecOf(key).s)))

\* the records of the last start_services of the entries that were asked
\* to listen
Listens == {j \in 1..Len(lastRun.run) : lastRun.run[j].listenCalled}

KeyOfRun(j) == service_specs[lastRun.run[j].entry].key

\* C11: every declared service with a valid port-spec goes through its try
\* block, and the address handed to its listen is the one of the resolution
\* rules: the default host and port 0 for an absent port-spec, the default
\* host and p for an integer p, (host, int(port)) for a 2-tuple or
\* "host:port", (host, 0) for a 1-tuple or a string without a colon.
C11_ListenAddressFollowsTheRules ==
    lastRun.ran =>
      /\ \A i \in 1..Len(service_specs) :
            ValidSpec(service_specs[i].key)
                => \/ \E j \in 1..Len(lastRun.run) : lastRun.run[j].entry = i
                   \/ lastRun.raised # "none" /\ lastRun.raisedAt < i
      /\ \A j \in Listens :
            ValidSpec(KeyOfRun(j)) =>
                /\ lastRun.run[j].host =
                       ExpectedHost(KeyOfRun(j), lastRun.default_listen_ip)
                /\ lastRun.run[j].port = IntV(ExpectedPort(KeyOfRun(j)))

\* a service declared with the string ":1" listened on host "" and port 1
C11_Witness ==
    /\ lastRun.ran
    /\ \E j \in Listens :
          /\ KeyOfRun(j) = TupV(<<StrV(<<"a">>), StrV(<<":", "1">>)>>)
          /\ lastRun.run[j].host = StrV(<<>>)
          /\ lastRun.run[j].port = IntV(1)
          /\ lastRun.default_listen_ip = <<"h">>

\* the shapes a port-spec may have
ClosedShape(key) ==
    \/ ~HasSpec(key)
    \/ SpecOf(key).t \in {"int", "str"}
    \/ SpecOf(key).t = "tuple" /\ Len(SpecOf(key).e) \in {1, 2}

\* C12: a port-spec of any other shape makes the resolution fail: the
\* service is never asked to listen.
C12_OtherShapesAreRejected ==
    lastRun.ran =>
        \A j \in 1..Len(lastRun.run) :
            ~ClosedShape(KeyOfRun(j)) => ~lastRun.run[j].listenCalled

\* C13: with the default host "0.0.0.0", a service whose port-spec names no
\* host listens on "" and not on "0.0.0.0"; a host that a tuple port-spec
\* names is the host of the listen, "0.0.0.0" included.
C13_AnyAddrBecomesEmptyHost ==
    (lastRun.ran /\ lastRun.default_listen_ip = AnyAddr) =>
        \A j \in Listens :
            /\ NamesNoHost(KeyOfRun(j)) =>
                  /\ lastRun.run[j].host = StrV(<<>>)
                  /\ lastRun.run[j].host # StrV(AnyAddr)
            /\ (HasSpec(KeyOfRun(j)) /\ SpecOf(KeyOfRun(j)).t = "tuple") =>
                  lastRun.run[j].host = SpecOf(KeyOfRun(j)).e[1]

\* with the default host "0.0.0.0", a service declared with the integer
\* port 1 listened on host ""
C13_Witness ==
    /\ lastRun.ran
    /\ lastRun.default_listen_ip = AnyAddr
    /\ \E j \in Listens :
          /\ KeyOfRun(j) = TupV(<<StrV(<<"a">>), IntV(1)>>)
          /\ lastRun.run[j].host = StrV(<<>>)
          /\ lastRun.run[j].port = IntV(1)

(***************************************************************************)
(* C14 and C15 are about one start_http_server                             *)
(***************************************************************************)
\* start_http_server runs in this step
HttpServerStarts == ~http.ran /\ http'.ran

\* the registry maps "dashboard" to the instance id
RegisteredAs(reg, k, id) == \E j \in 1..Len(reg) : reg[j] = [k |-> k, id |-> id]

\* C14: when the first bind of start_http_server fails, there is exactly one
\* more bind, with port 0 and the same host.  When it succeeds the call
\* succeeds, the server is registered under "dashboard" and its port is the
\* port of its socket, one the system picked.  The call fails only when the
\* second bind fails too, and then it registers nothing.
C14_BindIsRetriedOnceOnAnyPort ==
    [][(/\ HttpServerStarts
        /\ Len(http'.listens) > 0
        /\ ~http'.listens[1].ok)
       => /\ Len(http'.listens) = 2
          /\ http'.listens[2].port = IntV(0)
          /\ http'.listens[2].address = http'.listens[1].address
          /\ http'.listens[2].address = http'.http_address.address
          /\ http'.listens[2].ok =>
                /\ http'.raised = "none"
                /\ http'.http_server = "bound"
                /\ RegisteredAs(services', DashboardKey, http'.id)
                /\ http'.id \in (1..Len(instances')) \ (1..Len(instances))
                /\ instances'[http'.id].port = IntV(http'.bound)
                /\ http'.bound \in FreePorts
                /\ instances'[http'.id].host = http'.listens[2].address
                /\ ~instances'[http'.id].stopped
          /\ ~http'.listens[2].ok =>
                /\ http'.raised # "none"
                /\ services' = services
                /\ instances' = instances
          /\ http'.raised # "none" => ~http'.listens[2].ok]_vars

\* start_http_server("h:1") found port 1 taken and serves on a port the
\* system picked, registered under "dashboard"
C14_Witness ==
    /\ http.ran
    /\ http.dashboard_address = StrV(<<"h", ":", "1">>)
    /\ Len(http.listens) = 2
    /\ http.listens[1] = [address |-> StrV(<<"h">>), port |-> IntV(1),
                          ok |-> FALSE]
    /\ http.listens[2] = [address |-> StrV(<<"h">>), port |-> IntV(0),
                          ok |-> TRUE]
    /\ RegisteredAs(services, DashboardKey, http.id)
    /\ http.bound \in FreePorts

\* the caller named an address: neither None nor 0 nor ""
SpecificAddress(d) == d \notin {NoneV, IntV(0), StrV(<<>>)}

\* the bind of the call that returns succeeded at the second attempt
FallbackBind(h) ==
    /\ h.raised = "none"
    /\ Len(h.listens) = 2
    /\ ~h.listens[1].ok
    /\ h.listens[2].ok

\* C15: start_http_server issues the port-in-use warning exactly when the
\* bind succeeded at the second attempt and the caller named a dashboard
\* address; the warning names the port of the first attempt and the port
\* the server has.  It issues no warning when the first bind succeeds or
\* when the address came from the default port.
C15_PortWarningOnlyForRequestedAddress ==
    [][HttpServerStarts
       => /\ (warnings' # warnings)
                <=> (FallbackBind(http')
                        /\ SpecificAddress(http'.dashboard_address))
          /\ (warnings' # warnings)
                => warnings' =
                     Append(warnings,
                            [kind |-> "port_in_use",
                             requested |-> http'.listens[1].port,
                             actual |-> instances'[http'.id].port])]_vars

\* start_http_server(":1") found port 1 taken: one warning that names
\* port 1 and the port the system picked
C15_Witness ==
    /\ http.ran
    /\ ~lastRun.ran
    /\ http.dashboard_address = StrV(<<":", "1">>)
    /\ Len(warnings) = 1
    /\ warnings[1] = [kind |-> "port_in_use", requested |-> IntV(1),
                      actual |-> IntV(http.bound)]
    /\ http.bound \in FreePorts

(***************************************************************************)
(* C16 and C17 are about one get_logs                                      *)
(***************************************************************************)
PairOf(msg) == <<msg.levelname, Format(msg)>>

\* the n most recent records of d, the most recent first
MostRecentFirst(d, n) ==
    [j \in 1..Min(n, Len(d)) |-> PairOf(d[Len(d) - j + 1])]

\* C16: get_logs(n) returns the n most recent entries, the most recent
\* first: the newest, then the second newest, ...
C16_CountedLogsAreNewestFirst ==
    [][\A n \in LogCounts \ {NoneV} :
          GetLogs(n) => lastGet'.result = MostRecentFirst(deque, n.n)]_vars

\* C17: get_logs() without a count returns every buffered entry, the oldest
\* first, as (level, formatted message) pairs, and leaves the buffer as it
\* was.
C17_AllLogsAreOldestFirst ==
    [][GetLogs(NoneV)
       => /\ lastGet'.result = [j \in 1..Len(deque) |-> PairOf(deque[j])]
          /\ deque' = deque]_vars

\* get_logs() on a full buffer that has lost its first record returned the
\* three records left, the oldest first
C17_Witness ==
    /\ lastGet.ran
    /\ lastGet.n = NoneV
    /\ Len(deque) = MaxLogLength
    /\ deque[1].no = 2
    /\ Len(lastGet.result) = Len(deque)
    /\ \A j \in 1..Len(deque) : lastGet.result[j] = PairOf(deque[j])
    /\ deque[1].levelname # deque[2].levelname

(***************************************************************************)
(* C18 to C20                                                              *)
(***************************************************************************)
\* the start that task t awaits returns in this step
StartReturns(t) ==
    /\ co[t].pc = "rpc_start"
    /\ co'[t].startEnd = "returned"

\* task t begins `await node` or `async with node` in this step
BeginsAwait(t) ==
    /\ co[t].pc = "idle"
    /\ co'[t].pc # "idle"
    /\ co'[t].op \in {"await", "with"}

AllLaunched ==
    /\ lastRun.ran
    /\ lastRun.raised = "none"
    /\ Len(lastRun.run) = Len(service_specs)
    /\ \A j \in 1..Len(lastRun.run) : lastRun.run[j].o = "ok"

\* C19: after a start_services in which every construction and every listen
\* succeeded, the instance started for each declared key is stored in the
\* registry under the name of the key, is reached by stop_services and
\* listed by service_ports, and no two declared keys share an instance.
C19_EveryStartedInstanceIsRegistered ==
    (AllLaunched /\ ~stopLog.ran) =>
        /\ \A j \in 1..Len(lastRun.run) :
              /\ lastRun.run[j].id \in 1..Len(instances)
              /\ ~instances[lastRun.run[j].id].stopped
              /\ RegisteredAs(services, lastRun.run[j].k, lastRun.run[j].id)
              /\ \E q \in 1..Len(services) :
                    ServicePorts(services, instances)[q] =
                        [k |-> lastRun.run[j].k, port |-> lastRun.run[j].port]
        /\ \A i, j \in 1..Len(lastRun.run) :
              i # j => lastRun.run[i].id # lastRun.run[j].id

\* C20: whatever the interleaving of the awaits of a node, an await that
\* begins once the connection pool's start has been invoked, returned or
\* not, does not invoke it again.
C20_AwaitsStartThePoolOnce ==
    [][\A t \in Tasks :
          (BeginsAwait(t) /\ rpcStarts >= 1) => rpcStarts' = rpcStarts]_vars

====
